---- MODULE Spec2Model ----
(***************************************************************************)
(* Model of src/check_db.py: a script that reads DATABASE_URL, opens one   *)
(* psycopg2 connection, runs "SELECT version()", prints the result and     *)
(* closes the cursor and the connection, all inside one try/except.        *)
(*                                                                         *)
(* One action per statement of the script.  pc names the line of the       *)
(* statement that runs next ("l8" .. "l17", "l20" for the except body).    *)
(* The driver (psycopg2) and the server are the environment: each driver   *)
(* call either returns or raises, chosen nondeterministically.  Writes to  *)
(* the terminal are modelled as appending a line to out.                   *)
(***************************************************************************)
EXTENDS Naturals, Sequences, FiniteSets

\* Number of successive invocations of the script that are explored.
MaxRuns == 2

VARIABLES
    pc,            \* next statement: "init", "l8", ..., "l17", "l20", "done", "crashed"
    run,           \* number of the current invocation (1-based)
    DATABASE_URL,  \* value os.getenv("DATABASE_URL") returns in this invocation
    conn,          \* connection handle: "none" (unbound), "open", "closed"
    cur,           \* cursor handle: "none" (unbound), "open", "closed"
    curRows,       \* result set held by the cursor after execute
    version,       \* the script's variable `version`: Unbound, None or a row
    e,             \* exception bound by `except Exception as e`, or NoError
    out,           \* lines written to the terminal in this invocation
    steps,         \* lines of the statements executed in this invocation, in order
    resp,          \* what the environment answered to this invocation, in order
    connAttempts,  \* calls of psycopg2.connect in this invocation
    execCount,     \* calls of cur.execute in this invocation
    connCloses,    \* calls of conn.close in this invocation
    curCloses,     \* calls of cur.close in this invocation
    misuse,        \* a cursor operation ran while the connection was not open
    hist           \* one record per finished invocation

vars == <<pc, run, DATABASE_URL, conn, cur, curRows, version, e, out, steps,
          resp, connAttempts, execCount, connCloses, curCloses, misuse, hist>>

----------------------------------------------------------------------------
(* Values *)

\* A Python name that is not bound yet, and the value None of getenv.
Unbound == "<unbound>"
None == "<None>"
NoError == [kind |-> "none", msg |-> ""]

\* Values of the script's variable `version`: not assigned, None, or a row.
PyUnbound == [tag |-> "unbound", row |-> <<>>]
PyNone == [tag |-> "None", row |-> <<>>]
PyRow(r) == [tag |-> "tuple", row |-> r]

\* Values of DATABASE_URL: not set (getenv gives None), the empty string, a
\* string that is no connection string, and two well-formed URLs.
Urls == {None, "", "not-a-dsn", "postgresql://u:p@host-a/db", "postgresql://u:p@host-b/db"}

\* First field of the row SELECT version() returns.
Versions == {"PostgreSQL 15.4", "PostgreSQL 16.1"}

\* Result sets the server can return for the query: no row, or one row of one field.
ResultSets == {<<>>} \cup {<< <<v>> >> : v \in Versions}

\* Exceptions that derive from BaseException but not from Exception.
BaseOnly == {"KeyboardInterrupt", "SystemExit", "GeneratorExit"}

Err(kind, msg) == [kind |-> kind, msg |-> msg]

\* What psycopg2.connect(dsn) can raise for a given dsn.
ConnectErrors(dsn) ==
    IF dsn = None THEN {Err("TypeError", "missing dsn and no parameters")}
    ELSE IF dsn = "not-a-dsn"
         THEN {Err("ProgrammingError", "invalid dsn: missing \"=\"")}
    ELSE {Err("OperationalError", "could not translate host name"),
          Err("OperationalError", "password authentication failed")}

\* Whether psycopg2.connect(dsn) can return a connection.
ConnectCanSucceed(dsn) == dsn \notin {None, "not-a-dsn"}

ExecuteErrors == {Err("ProgrammingError", "function version() does not exist"),
                  Err("OperationalError", "server closed the connection unexpectedly")}

----------------------------------------------------------------------------
(* The three message shapes *)

\* line 9: print("... Neon DB connected!")
SuccessLine == [marker |-> "success", text |-> "Neon DB connected"]

\* Variant: the whole row is formatted, f"PostgreSQL version: {version}".
VersionLineWholeRow(row) == [marker |-> "version", text |-> "('" \o row[1] \o "',)"]

\* line 14: f"PostgreSQL version: {version[0]}"; Python's index 0 is index 1 here.
VersionLine(row) == [marker |-> "version", text |-> row[1]]

\* line 20: f"... connection failed: {e}"; str(e) is the exception's message.
FailureLine(ex) == [marker |-> "failure", text |-> ex.msg]

----------------------------------------------------------------------------
(* Exceptions *)

\* Variant: `except psycopg2.Error`, which catches the driver's errors only.
CatchesDriverErrors(kind) ==
    kind \in {"OperationalError", "ProgrammingError", "InterfaceError"}

\* line 19: `except Exception` catches every exception that derives from Exception.
Catches(kind) == kind \notin BaseOnly

\* A statement of the try block raises ex: control goes to the except body when
\* the clause catches it, and out of the script otherwise.
Raise(ex) ==
    /\ e' = ex
    /\ pc' = IF Catches(ex.kind) THEN "l20" ELSE "crashed"

\* History: the statement at `line` ran; the environment answered a call.
Step(line) == steps' = Append(steps, line)
Answer(call, val, ex) == resp' = Append(resp, [call |-> call, val |-> val, err |-> ex])

----------------------------------------------------------------------------
Init ==
    /\ pc = "init"
    /\ run = 1
    /\ DATABASE_URL = Unbound
    /\ conn = "none"
    /\ cur = "none"
    /\ curRows = <<>>
    /\ version = PyUnbound
    /\ e = NoError
    /\ out = <<>>
    /\ steps = <<>>
    /\ resp = <<>>
    /\ connAttempts = 0
    /\ execCount = 0
    /\ connCloses = 0
    /\ curCloses = 0
    /\ misuse = FALSE
    /\ hist = <<>>

\* lines 1-5: the imports and load_dotenv(): the environment of this invocation
\* is fixed, DATABASE_URL being unset or set to some string.
Start ==
    /\ pc = "init"
    /\ run <= MaxRuns
    /\ \E u \in Urls :
          /\ DATABASE_URL' = u
          /\ Answer("getenv", u, NoError)
    /\ Step(5)
    /\ pc' = "l8"
    /\ UNCHANGED <<run, conn, cur, curRows, version, e, out, connAttempts,
                   execCount, connCloses, curCloses, misuse, hist>>

\* line 8: conn = psycopg2.connect(os.getenv("DATABASE_URL"))
Connect ==
    /\ pc = "l8"
    /\ connAttempts' = connAttempts + 1
    /\ Step(8)
    /\ \/ /\ ConnectCanSucceed(DATABASE_URL)
          /\ conn' = "open"
          /\ Answer("connect", "connection", NoError)
          /\ pc' = "l9"
          /\ UNCHANGED e
       \/ \E ex \in ConnectErrors(DATABASE_URL) :
             /\ Raise(ex)
             /\ Answer("connect", "", ex)
             /\ UNCHANGED conn
    /\ UNCHANGED <<run, DATABASE_URL, cur, curRows, version, out, execCount,
                   connCloses, curCloses, misuse, hist>>

\* line 9: print the success message
PrintSuccess ==
    /\ pc = "l9"
    /\ Step(9)
    /\ out' = Append(out, SuccessLine)
    /\ pc' = "l11"
    /\ UNCHANGED <<run, DATABASE_URL, conn, cur, curRows, version, e, resp,
                   connAttempts, execCount, connCloses, curCloses, misuse, hist>>

\* line 11: cur = conn.cursor(): no round trip to the server; the driver raises
\* InterfaceError only for a connection that is not open.
CursorCreate ==
    /\ pc = "l11"
    /\ Step(11)
    /\ misuse' = (misuse \/ conn # "open")
    /\ IF conn = "open"
       THEN /\ cur' = "open"
            /\ Answer("cursor", "cursor", NoError)
            /\ pc' = "l12"
            /\ UNCHANGED e
       ELSE LET ex == Err("InterfaceError", "connection already closed") IN
               /\ Raise(ex)
               /\ Answer("cursor", "", ex)
               /\ UNCHANGED cur
    /\ UNCHANGED <<run, DATABASE_URL, conn, curRows, version, out, connAttempts,
                   execCount, connCloses, curCloses, hist>>

\* line 12: cur.execute("SELECT version()")
Execute ==
    /\ pc = "l12"
    /\ Step(12)
    /\ execCount' = execCount + 1
    /\ misuse' = (misuse \/ conn # "open")
    /\ \/ \E rows \in ResultSets :
             /\ curRows' = rows
             /\ Answer("execute", IF rows = <<>> THEN None ELSE rows[1][1], NoError)
             /\ pc' = "l13"
             /\ UNCHANGED e
       \/ \E ex \in ExecuteErrors :
             /\ Raise(ex)
             /\ Answer("execute", "", ex)
             /\ UNCHANGED curRows
    /\ UNCHANGED <<run, DATABASE_URL, conn, cur, version, out, connAttempts,
                   connCloses, curCloses, hist>>

\* line 13: version = cur.fetchone(): the next row of the result set, or None
\* when there is none.
Fetch ==
    /\ pc = "l13"
    /\ Step(13)
    /\ misuse' = (misuse \/ conn # "open")
    /\ \/ /\ version' = IF curRows = <<>> THEN PyNone ELSE PyRow(Head(curRows))
          /\ curRows' = IF curRows = <<>> THEN <<>> ELSE Tail(curRows)
          /\ Answer("fetchone", "row", NoError)
          /\ pc' = "l14"
          /\ UNCHANGED e
       \/ LET ex == Err("OperationalError", "connection lost while fetching") IN
             /\ Raise(ex)
             /\ Answer("fetchone", "", ex)
             /\ UNCHANGED <<version, curRows>>
    /\ UNCHANGED <<run, DATABASE_URL, conn, cur, out, connAttempts, execCount,
                   connCloses, curCloses, hist>>

\* line 14: print(f"PostgreSQL version: {version[0]}"): subscripting None
\* raises TypeError before anything is printed.
PrintVersion ==
    /\ pc = "l14"
    /\ Step(14)
    /\ IF version.tag = "tuple"
       THEN /\ out' = Append(out, VersionLine(version.row))
            /\ pc' = "l16"
            /\ UNCHANGED e
       ELSE /\ Raise(Err("TypeError", "'NoneType' object is not subscriptable"))
            /\ UNCHANGED out
    /\ UNCHANGED <<run, DATABASE_URL, conn, cur, curRows, version, resp,
                   connAttempts, execCount, connCloses, curCloses, misuse, hist>>

\* line 16: cur.close()
CursorClose ==
    /\ pc = "l16"
    /\ Step(16)
    /\ misuse' = (misuse \/ conn # "open")
    /\ cur' = "closed"
    /\ curCloses' = curCloses + 1
    /\ pc' = "l17"
    /\ UNCHANGED <<run, DATABASE_URL, conn, curRows, version, e, out, resp,
                   connAttempts, execCount, connCloses, hist>>

\* Variant: conn.close() written before cur.close().
ConnCloseBeforeCursor ==
    /\ pc = "l16"
    /\ conn = "open"
    /\ Step(17)
    /\ conn' = "closed"
    /\ connCloses' = connCloses + 1
    /\ UNCHANGED <<pc, run, DATABASE_URL, cur, curRows, version, e, out, resp,
                   connAttempts, execCount, curCloses, misuse, hist>>

\* line 17: conn.close(), the last statement of the try block
ConnClose ==
    /\ pc = "l17"
    /\ Step(17)
    /\ conn' = "closed"
    /\ connCloses' = connCloses + 1
    /\ pc' = "done"
    /\ UNCHANGED <<run, DATABASE_URL, cur, curRows, version, e, out, resp,
                   connAttempts, execCount, curCloses, misuse, hist>>

\* Variant: the except body prints the failure and tries the connection again.
HandlerRetry ==
    /\ pc = "l20"
    /\ Step(20)
    /\ out' = Append(out, FailureLine(e))
    /\ pc' = "l8"
    /\ UNCHANGED <<run, DATABASE_URL, conn, cur, curRows, version, e, resp,
                   connAttempts, execCount, connCloses, curCloses, misuse, hist>>

\* Variant: `except Exception: pass`, the error is swallowed without a message.
HandlerSilent ==
    /\ pc = "l20"
    /\ Step(20)
    /\ pc' = "done"
    /\ UNCHANGED <<run, DATABASE_URL, conn, cur, curRows, version, e, out, resp,
                   connAttempts, execCount, connCloses, curCloses, misuse, hist>>

\* lines 19-20: the except body prints the failure message; the script ends.
Handler ==
    /\ pc = "l20"
    /\ Step(20)
    /\ out' = Append(out, FailureLine(e))
    /\ pc' = "done"
    /\ UNCHANGED <<run, DATABASE_URL, conn, cur, curRows, version, e, resp,
                   connAttempts, execCount, connCloses, curCloses, misuse, hist>>

\* What one invocation leaves behind for an observer: what the environment
\* answered, the statements that ran and the terminal output.
RunRecord == [resp |-> resp, steps |-> steps, out |-> out, pc |-> pc]

\* Variant: the handles and the fetched row outlive the invocation (the
\* script's body run again inside one interpreter, its globals still bound).
ExitKeepsGlobals ==
    /\ pc \in {"done", "crashed"}
    /\ hist' = Append(hist, [resp |-> resp, steps |-> steps, out |-> out, pc |-> pc])
    /\ run' = run + 1
    /\ pc' = "init"
    /\ out' = <<>>
    /\ steps' = <<>>
    /\ resp' = <<>>
    /\ connAttempts' = 0
    /\ execCount' = 0
    /\ connCloses' = 0
    /\ curCloses' = 0
    /\ misuse' = FALSE
    /\ UNCHANGED <<DATABASE_URL, conn, cur, curRows, version, e>>

\* End of the script: the process exits and nothing of it is kept; the next
\* invocation starts a new interpreter with every name unbound.
Exit ==
    /\ pc \in {"done", "crashed"}
    /\ hist' = Append(hist, RunRecord)
    /\ run' = run + 1
    /\ pc' = "init"
    /\ DATABASE_URL' = Unbound
    /\ conn' = "none"
    /\ cur' = "none"
    /\ curRows' = <<>>
    /\ version' = PyUnbound
    /\ e' = NoError
    /\ out' = <<>>
    /\ steps' = <<>>
    /\ resp' = <<>>
    /\ connAttempts' = 0
    /\ execCount' = 0
    /\ connCloses' = 0
    /\ curCloses' = 0
    /\ misuse' = FALSE

Next ==
    \/ Start
    \/ Connect
    \/ PrintSuccess
    \/ CursorCreate
    \/ Execute
    \/ Fetch
    \/ PrintVersion
    \/ CursorClose
    \/ ConnClose
    \/ Handler
    \/ Exit

Spec == Init /\ [][Next]_vars

\* Every statement returns or raises: the interpreter always takes the next step.
FairSpec == Spec /\ WF_vars(Next)

----------------------------------------------------------------------------
(* Helpers of the properties *)

Markers == {out[i].marker : i \in DOMAIN out}
Last(s) == s[Len(s)]
NoRepeat(s) == \A i, j \in DOMAIN s : s[i] = s[j] => i = j
Ended == pc \in {"done", "crashed"}
Running == pc \notin {"init", "done", "crashed"}
\* The answers of the environment in which every call returned.
AllReturned(r) == \A i \in DOMAIN r : r[i].err = NoError
\* The first field of the row the server returned to execute, None when no row.
ServerField(r) == r[CHOOSE i \in DOMAIN r : r[i].call = "execute"].val
Executed(r) == \E i \in DOMAIN r : r[i].call = "execute" /\ r[i].err = NoError
Fetched(r) == \E i \in DOMAIN r : r[i].call = "fetchone" /\ r[i].err = NoError

----------------------------------------------------------------------------
(* C1 *)

\* C1: at the end of a run, a connection handle that was acquired has been
\* closed exactly once (never left open, never closed twice).
C1_ConnClosedExactlyOnce ==
    (Ended /\ conn # "none") => (conn = "closed" /\ connCloses = 1)

(* C2 *)

\* C2: at the end of a run the terminal shows exactly one of two shapes: the
\* success message followed by the version line, or the failure message alone;
\* never both markers, never the success marker without a version line.
C2_TwoShapes ==
    Ended =>
       \/ /\ Len(out) = 2
          /\ out[1] = SuccessLine
          /\ out[2].marker = "version"
       \/ /\ Len(out) = 1
          /\ out[1].marker = "failure"

(* C3 *)

\* C3: when a step of the connect-or-query sequence raises, whatever the kind
\* of the error, the run prints the failure message carrying that error's
\* description as its last line, exactly once, and ends normally: the error
\* never leaves the script unhandled.
C3_FailureReported ==
    (e # NoError) =>
       /\ pc \in {"l20", "done"}
       /\ pc = "done" =>
             /\ out # <<>>
             /\ Last(out) = [marker |-> "failure", text |-> e.msg]
             /\ e.msg # ""
             /\ Cardinality({i \in DOMAIN out : out[i].marker = "failure"}) = 1

\* An unset DATABASE_URL: connect raised TypeError and the run has ended.
C3_Witness ==
    /\ pc = "done"
    /\ DATABASE_URL = None
    /\ e.kind = "TypeError"
    /\ Last(out).marker = "failure"

(* C4 *)

\* C4: when the session opened, the query executed and fetchone returned a
\* row, the finished run has printed the success message and then the version
\* line whose text is the first field of the row the server returned, and no
\* failure message.
C4_SuccessReport ==
    (pc = "done" /\ Executed(resp) /\ version.tag = "tuple") =>
       /\ out = <<SuccessLine, [marker |-> "version", text |-> ServerField(resp)]>>
       /\ "failure" \notin Markers

\* A finished run in which the server returned a row.
C4_Witness ==
    /\ pc = "done"
    /\ version.tag = "tuple"
    /\ Len(out) = 2
    /\ out[2].text = "PostgreSQL 16.1"

(* C5 *)

\* C5: the steps run in the order configure, connect, query, report, release:
\* nothing of the report (success message, version line) is on the terminal
\* before the query has completed, and release happens only after the report.
C5_ReportAfterQuery ==
    /\ (Markers \cap {"success", "version"} # {}) => version # PyUnbound
    /\ (connCloses + curCloses > 0) => "version" \in Markers

(* C6 *)

\* C6: in every run psycopg2.connect is called exactly once and the query is
\* executed at most once; no statement runs a second time, so a failure is
\* never followed by a retry.
C6_OneAttempt ==
    /\ connAttempts <= 1
    /\ execCount <= 1
    /\ NoRepeat(steps)
    /\ pc \notin {"init", "l8"} => connAttempts = 1

\* A run that failed after connecting and executing, and has ended.
C6_Witness ==
    /\ pc = "done"
    /\ e # NoError
    /\ connAttempts = 1
    /\ execCount = 1

(* C7 *)

\* C7: at the end of a run, a cursor that was acquired has been closed.
C7_CursorClosed ==
    (Ended /\ cur # "none") => cur = "closed"

(* C8 *)

\* The run has ended and its last line is the version line or the failure line.
Reported == pc = "done" /\ out # <<>> /\ Last(out).marker \in {"version", "failure"}

\* C8: every run that has started reaches its end state, having printed the
\* version line or the failure line, and no statement runs twice on the way.
C8_Terminates ==
    /\ [](NoRepeat(steps))
    /\ Running ~> Reported

\* A run that ended through the except body.
C8_Witness ==
    /\ Reported
    /\ Last(out).marker = "failure"
    /\ Last(steps) = 20

(* C9 *)

C10_CursorWithinConnection ==
    /\ ~misuse
    /\ cur # "none" => conn # "none"
    /\ conn = "closed" => cur = "closed"

\* Both handles closed, cursor first.
C10_Witness ==
    /\ conn = "closed"
    /\ cur = "closed"
    /\ steps = <<5, 8, 9, 11, 12, 13, 14, 16, 17>>

====
